---- MODULE Spec2Model ----
(***************************************************************************)
(* Model of docker-volbackup (src/src/main.rs): the one-shot batch that    *)
(* lists the running containers, inspects each, optionally stops it,       *)
(* archives every mount with a helper container, optionally restarts it    *)
(* and turns the aggregated outcome into the process exit code.            *)
(*                                                                         *)
(* The program is sequential; the model has one action per engine          *)
(* invocation or control-flow step, and the engine's answer to every       *)
(* invocation is chosen nondeterministically.  Strings that the program    *)
(* transforms (names, mount paths, file names) are sequences of            *)
(* one-character strings.                                                  *)
(***************************************************************************)
EXTENDS Integers, Sequences, FiniteSets, TLC

VARIABLES
    pc,             \* position in main / backup_container / backup_all_mounts
    stop_start,     \* CliArguments.stop_start
    ps_info,        \* Vec<PsInfo> returned by the list call (the names)
    idx,            \* position of the `for ps_info in ps_info` loop (0 = not started)
    container_info, \* inspected.get(0) of the current container, or NoInfo
    mount_i,        \* position of the `for mount in mounts` loop
    errors,         \* `errors` counter of backup_all_mounts
    has_errors,     \* `has_errors` flag of backup_container
    bam_result,     \* Result returned by backup_all_mounts for the current container
    bc_result,      \* Result returned by backup_container
    exit_code,      \* ExitCode of the process ("none" while running)
    err,            \* origin of the DockerError being propagated ("none" if none)
    report,         \* per processed container: which log branch backup_container took
    invocations,    \* every engine invocation issued so far: [cmd, c] (c = container position)
    calls,          \* the invocations of the current container, in full
    stopped         \* containers stopped by the batch and not restarted since

(* The file-name derivation on its own: sanitize and the format! of the   *)
(* archive path applied to arbitrary names and mount paths.               *)
VARIABLES
    fpc,            \* position of the derivation
    arg_name,       \* container.names
    arg_s,          \* mount.destination, the argument `s` of sanitize
    arg_other,      \* another mount destination of the same container
    sanitized,      \* sanitize(s)
    resanitized,    \* sanitize(sanitize(s))
    archive,        \* archive path derived for arg_s
    other_archive   \* archive path derived for arg_other

(* The engine invoker on its own: docker_outputless_command, execute and  *)
(* the two decoders, with the subprocesses and the stdout descriptor.     *)
VARIABLES
    ipc,            \* position inside the invoker ("idle" between two calls)
    procs,          \* one record per invocation made so far
    fd              \* the read end of the stdout pipe of the captured child

mvars == <<pc, stop_start, ps_info, idx, container_info, mount_i, errors,
           has_errors, bam_result, bc_result, exit_code, err, report,
           invocations, calls, stopped>>

fvars == <<fpc, arg_name, arg_s, arg_other, sanitized, resanitized, archive,
           other_archive>>

ivars == <<ipc, procs, fd>>

vars == <<mvars, fvars, ivars>>

----------------------------------------------------------------------------
(* Bounds of the model *)

MaxContainers == 2
MaxMounts == 2
MaxPathLen == 4
MaxInvocations == 3

----------------------------------------------------------------------------
(* Strings *)

TYPE_BACKUPCONTAINER == "backupcontainer"

NameDb == <<"d", "b">>
NameCache == <<"c", "a", "c", "h", "e">>
NameWeb == <<"w", "e", "b">>
Names == {NameDb, NameCache, NameWeb}

PathData == <<"/", "d", "a", "t", "a">>
PathVarLibDb == <<"/", "v", "a", "r", "/", "l", "i", "b", "/", "d", "b">>
Destinations == {PathData, PathVarLibDb}

Ids == {"id1", "id2"}

TarSuffix == <<".", "t", "a", "r">>
BackupDest == <<"/", "b", "a", "c", "k", "u", "p", "d", "e", "s", "t", "/">>

(* Variant: only the first separator is replaced. *)
sanitize_FirstOnly(s) ==
    [k \in 1..Len(s) |->
        IF s[k] = "/" /\ (\A j \in 1..(k - 1) : s[j] # "/") THEN "_" ELSE s[k]]

(* s.replace('/', "_") *)
sanitize(s) == [k \in 1..Len(s) |-> IF s[k] = "/" THEN "_" ELSE s[k]]

(* Variant: the mount path is left out of the file name. *)
ArchivePath_NameOnly(name, destination) ==
    BackupDest \o name \o TarSuffix

(* format!("/backupdest/{}{}.tar", container.names, sanitize(&mount.destination)) *)
ArchivePath(name, destination) ==
    BackupDest \o name \o sanitize(destination) \o TarSuffix

----------------------------------------------------------------------------
(* Engine answers *)

(* Label mappings are sets of <<key, value>> pairs with unique keys. *)
(* One map per outcome of the lookup of `type`: the helper marker, another *)
(* value, and no such key (the marker under another key).                 *)
LabelMaps == { {<<"type", TYPE_BACKUPCONTAINER>>},
               {<<"type", "app">>},
               {<<"role", TYPE_BACKUPCONTAINER>>} }

(* labels.get(key).unwrap_or(default) *)
LabelGetOr(labels, key, default) ==
    IF \E p \in labels : p[1] = key
    THEN (CHOOSE p \in labels : p[1] = key)[2]
    ELSE default

RECURSIVE SeqsUpTo(_, _)
SeqsUpTo(S, n) ==
    IF n = 0 THEN {<<>>}
    ELSE LET shorter == SeqsUpTo(S, n - 1)
         IN shorter \cup {Append(s, x) : s \in {t \in shorter : Len(t) = n - 1}, x \in S}

(* docker ps lists each running container once: names do not repeat. *)
NameLists == {s \in SeqsUpTo(Names, MaxContainers) :
                 \A a, b \in 1..Len(s) : a # b => s[a] # s[b]}

MountLists == SeqsUpTo(Destinations, MaxMounts)

ContainerInfos ==
    [id : Ids, mounts : MountLists, labels : LabelMaps]

NoInfo == [id |-> "", mounts |-> <<>>, labels |-> {<<"none", "none">>}]

(* What a captured invocation hands to its caller: the `?` of execute    *)
(* (spawn failure), the decoder's error (malformed output or an I/O      *)
(* error while reading the descriptor), or the decoded vector.           *)
CapturedErrors == {"spawn", "decode"}

(* One entry of the per-container invocation record. *)
Call(cmd, target, destination, file, ok) ==
    [cmd |-> cmd, target |-> target, destination |-> destination,
     file |-> file, ok |-> ok]

Issued(cmd, c) == [cmd |-> cmd, c |-> c]

----------------------------------------------------------------------------
(* Decisions of the code *)

(* Variant: the marker is looked up under another key. *)
IsBackupContainer_WrongKey(labels) ==
    LabelGetOr(labels, "role", "-") = TYPE_BACKUPCONTAINER

(* main.rs 116-121: labels.get("type").unwrap_or("-") == TYPE_BACKUPCONTAINER *)
IsBackupContainer(labels) ==
    LabelGetOr(labels, "type", "-") = TYPE_BACKUPCONTAINER

(* Variant: the name of the first listed container is used throughout. *)
container_name_First(ps, i) == ps[1]

(* main.rs 74-75: container_name = &ps_info.names of the loop's element *)
container_name(ps, i) == ps[i]

(* Variant: the result of the stop invocation is dropped. *)
StopAborts_Ignored(ok) == FALSE

(* main.rs 132: the `?` after the stop invocation returns the error *)
StopAborts(ok) == ~ok

(* Variant: the mounts are visited from the last to the first. *)
MountAt_Reversed(mounts, k) == mounts[Len(mounts) - k + 1]

(* Variant: the result of the start invocation is dropped. *)
StartAborts_Ignored(ok) == FALSE

(* main.rs 170: the `?` after the start invocation returns the error *)
StartAborts(ok) == ~ok

(* main.rs 136: the loop visits the mounts in the reported order *)
MountAt(mounts, k) == mounts[k]

(* main.rs 138, 165: a failed archive invocation is counted *)
CountError(n, ok) == IF ok THEN n ELSE n + 1

(* Variant: the container is restarted only after a clean archive. *)
IssueStart_OnlyWhenClean(ss, n) == ss /\ n = 0

(* Variant: the container is restarted whatever the option. *)
IssueStart_Always(ss, n) == TRUE

(* main.rs 168: the start invocation depends on the option only *)
IssueStart(ss, n) == ss

(* Variant: the failure counter is not consulted. *)
BackupResult_AlwaysTrue(n) == "Ok(true)"

(* main.rs 173: Ok(errors == 0) *)
BackupResult(n) == IF n = 0 THEN "Ok(true)" ELSE "Ok(false)"

(* main.rs 102: Ok(!has_errors) *)
BackupContainerResult(he) == IF he THEN "Ok(false)" ELSE "Ok(true)"

(* main.rs 50-53: backup_container(..).expect("Backup failed") and the   *)
(* match on its value; a panic ends the process with a non-success       *)
(* status of its own.                                                    *)
ExitOf(r) ==
    CASE r = "Ok(true)" -> "FAILURE"
      [] r = "Ok(false)" -> "SUCCESS"
      [] OTHER -> "PANIC"

(* Variant: a failed list call is signalled to the caller. *)
ListErrorExit_Failure == "FAILURE"

(* main.rs 54-57: the error of the list call is logged *)
ListErrorExit == "SUCCESS"

----------------------------------------------------------------------------
(* The program *)

(* The batch at rest. *)
BatchIdle ==
    /\ pc = "off"
    /\ stop_start = FALSE
    /\ ps_info = <<>>
    /\ idx = 0
    /\ container_info = NoInfo
    /\ mount_i = 0
    /\ errors = 0
    /\ has_errors = FALSE
    /\ bam_result = "none"
    /\ bc_result = "none"
    /\ exit_code = "none"
    /\ err = "none"
    /\ report = <<>>
    /\ invocations = <<>>
    /\ calls = <<>>
    /\ stopped = {}

(* The other components at rest. *)
DerivationIdle ==
    /\ fpc = "off"
    /\ arg_name = <<>>
    /\ arg_s = <<>>
    /\ arg_other = <<>>
    /\ sanitized = <<>>
    /\ resanitized = <<>>
    /\ archive = <<>>
    /\ other_archive = <<>>

NoFd == [state |-> "none", owners |-> {}, closes |-> 0]

InvokerIdle ==
    /\ ipc = "off"
    /\ procs = <<>>
    /\ fd = NoFd

Init ==
    /\ DerivationIdle
    /\ InvokerIdle
    /\ stopped = {}
    /\ pc = "main"
    /\ stop_start \in BOOLEAN
    /\ ps_info = <<>>
    /\ idx = 0
    /\ container_info = NoInfo
    /\ mount_i = 0
    /\ errors = 0
    /\ has_errors = FALSE
    /\ bam_result = "none"
    /\ bc_result = "none"
    /\ exit_code = "none"
    /\ err = "none"
    /\ report = <<>>
    /\ invocations = <<>>
    /\ calls = <<>>

(* main 49, 54-57: the list call fails *)
ListErr ==
    /\ UNCHANGED <<stopped, fvars, ivars>>
    /\ pc = "main"
    /\ \E e \in CapturedErrors :
          /\ invocations' = Append(invocations, Issued("list", 0))
          /\ err' = "list"
          /\ exit_code' = ListErrorExit
          /\ pc' = "done"
    /\ UNCHANGED <<stop_start, ps_info, idx, container_info, mount_i, errors,
                   has_errors, bam_result, bc_result, report, calls>>

(* main 49-50: the list call returns the running containers *)
ListOk ==
    /\ UNCHANGED <<stopped, fvars, ivars>>
    /\ pc = "main"
    /\ \E names \in NameLists :
          /\ invocations' = Append(invocations, Issued("list", 0))
          /\ ps_info' = names
          /\ pc' = "loop"
    /\ UNCHANGED <<stop_start, idx, container_info, mount_i, errors,
                   has_errors, bam_result, bc_result, exit_code, err, report,
                   calls>>

(* backup_container 74: the loop takes the next container *)
NextContainer ==
    /\ UNCHANGED <<stopped, fvars, ivars>>
    /\ pc = "loop"
    /\ idx < Len(ps_info)
    /\ idx' = idx + 1
    /\ container_info' = NoInfo
    /\ mount_i' = 0
    /\ errors' = 0
    /\ bam_result' = "none"
    /\ calls' = <<>>
    /\ pc' = "inspect"
    /\ UNCHANGED <<stop_start, ps_info, has_errors, bc_result, exit_code, err,
                   report, invocations>>

(* backup_container 102: the loop is over *)
BackupContainerReturn ==
    /\ UNCHANGED <<stopped, fvars, ivars>>
    /\ pc = "loop"
    /\ idx = Len(ps_info)
    /\ bc_result' = BackupContainerResult(has_errors)
    /\ pc' = "return"
    /\ UNCHANGED <<stop_start, ps_info, idx, container_info, mount_i, errors,
                   has_errors, bam_result, exit_code, err, report, invocations,
                   calls>>

(* backup_container 81-84: the inspect call fails and `?` returns *)
InspectErr ==
    /\ UNCHANGED <<stopped, fvars, ivars>>
    /\ pc = "inspect"
    /\ \E e \in CapturedErrors :
          /\ invocations' = Append(invocations, Issued("inspect", idx))
          /\ calls' = Append(calls, Call("inspect", container_name(ps_info, idx), <<>>, <<>>, FALSE))
          /\ err' = "inspect"
          /\ bc_result' = "Err"
          /\ pc' = "return"
    /\ UNCHANGED <<stop_start, ps_info, idx, container_info, mount_i, errors,
                   has_errors, bam_result, exit_code, report>>

(* backup_container 81-85, 98-100: inspect returns an empty array *)
InspectNoData ==
    /\ UNCHANGED <<stopped, fvars, ivars>>
    /\ pc = "inspect"
    /\ invocations' = Append(invocations, Issued("inspect", idx))
    /\ calls' = Append(calls, Call("inspect", container_name(ps_info, idx), <<>>, <<>>, TRUE))
    /\ report' = Append(report, "nodata")
    /\ pc' = "loop"
    /\ UNCHANGED <<stop_start, ps_info, idx, container_info, mount_i, errors,
                   has_errors, bam_result, bc_result, exit_code, err>>

(* backup_container 81-86: inspect returns a record; backup_all_mounts is called *)
InspectOk ==
    /\ UNCHANGED <<stopped, fvars, ivars>>
    /\ pc = "inspect"
    /\ \E inspected \in {<<r>> : r \in ContainerInfos} :
          /\ invocations' = Append(invocations, Issued("inspect", idx))
          /\ calls' = Append(calls, Call("inspect", container_name(ps_info, idx), <<>>, <<>>, TRUE))
          /\ container_info' = inspected[1]
          /\ pc' = "labels"
    /\ UNCHANGED <<stop_start, ps_info, idx, mount_i, errors, has_errors,
                   bam_result, bc_result, exit_code, err, report>>

(* backup_all_mounts 116-128: a backup helper is skipped *)
SkipBackupContainer ==
    /\ UNCHANGED <<stopped, fvars, ivars>>
    /\ pc = "labels"
    /\ IsBackupContainer(container_info.labels)
    /\ bam_result' = "Ok(true)"
    /\ pc' = "match"
    /\ UNCHANGED <<stop_start, ps_info, idx, container_info, mount_i, errors,
                   has_errors, bc_result, exit_code, err, report, invocations,
                   calls>>

(* backup_all_mounts 116-130, 135: any other container is backed up *)
Eligible ==
    /\ UNCHANGED <<stopped, fvars, ivars>>
    /\ pc = "labels"
    /\ ~IsBackupContainer(container_info.labels)
    /\ errors' = 0
    /\ pc' = IF stop_start THEN "stop" ELSE "archive"
    /\ UNCHANGED <<stop_start, ps_info, idx, container_info, mount_i,
                   has_errors, bam_result, bc_result, exit_code, err, report,
                   invocations, calls>>

(* backup_all_mounts 130-133: the stop invocation *)
Stop ==
    /\ UNCHANGED <<fvars, ivars>>
    /\ pc = "stop"
    /\ \E ok \in BOOLEAN :
          /\ invocations' = Append(invocations, Issued("stop", idx))
          /\ calls' = Append(calls, Call("stop", container_info.id, <<>>, <<>>, ok))
          /\ stopped' = IF ok THEN stopped \cup {idx} ELSE stopped
          /\ IF StopAborts(ok)
             THEN /\ bam_result' = "Err"
                  /\ err' = "stop"
                  /\ pc' = "match"
             ELSE /\ pc' = "archive"
                  /\ UNCHANGED <<bam_result, err>>
    /\ UNCHANGED <<stop_start, ps_info, idx, container_info, mount_i, errors,
                   has_errors, bc_result, exit_code, report>>

(* backup_all_mounts 136-167: one archive invocation *)
Run ==
    /\ UNCHANGED <<stopped, fvars, ivars>>
    /\ pc = "archive"
    /\ mount_i < Len(container_info.mounts)
    /\ \E ok \in BOOLEAN :
          LET destination == MountAt(container_info.mounts, mount_i + 1)
          IN /\ invocations' = Append(invocations, Issued("run", idx))
             /\ calls' = Append(calls,
                                Call("run", container_info.id, destination,
                                     ArchivePath(container_name(ps_info, idx), destination), ok))
             /\ errors' = CountError(errors, ok)
    /\ mount_i' = mount_i + 1
    /\ UNCHANGED <<pc, stop_start, ps_info, idx, container_info, has_errors,
                   bam_result, bc_result, exit_code, err, report>>

(* backup_all_mounts 136, 168, 173: the mounts are exhausted *)
ArchiveDone ==
    /\ UNCHANGED <<stopped, fvars, ivars>>
    /\ pc = "archive"
    /\ mount_i = Len(container_info.mounts)
    /\ IF IssueStart(stop_start, errors)
       THEN /\ pc' = "start"
            /\ UNCHANGED bam_result
       ELSE /\ bam_result' = BackupResult(errors)
            /\ pc' = "match"
    /\ UNCHANGED <<stop_start, ps_info, idx, container_info, mount_i, errors,
                   has_errors, bc_result, exit_code, err, report, invocations,
                   calls>>

(* backup_all_mounts 168-173: the start invocation *)
Start ==
    /\ UNCHANGED <<fvars, ivars>>
    /\ pc = "start"
    /\ \E ok \in BOOLEAN :
          /\ invocations' = Append(invocations, Issued("start", idx))
          /\ calls' = Append(calls, Call("start", container_info.id, <<>>, <<>>, ok))
          /\ stopped' = IF ok THEN stopped \ {idx} ELSE stopped
          /\ IF StartAborts(ok)
             THEN /\ bam_result' = "Err"
                  /\ err' = "start"
             ELSE /\ bam_result' = BackupResult(errors)
                  /\ UNCHANGED err
    /\ pc' = "match"
    /\ UNCHANGED <<stop_start, ps_info, idx, container_info, mount_i, errors,
                   has_errors, bc_result, exit_code, report>>

(* backup_container 86: the `?` on the result of backup_all_mounts *)
MountsErr ==
    /\ UNCHANGED <<stopped, fvars, ivars>>
    /\ pc = "match"
    /\ bam_result = "Err"
    /\ bc_result' = "Err"
    /\ pc' = "return"
    /\ UNCHANGED <<stop_start, ps_info, idx, container_info, mount_i, errors,
                   has_errors, bam_result, exit_code, err, report, invocations,
                   calls>>

(* backup_container 86-91: backup_all_mounts returned Ok(false) *)
MountsFailed ==
    /\ UNCHANGED <<stopped, fvars, ivars>>
    /\ pc = "match"
    /\ bam_result = "Ok(false)"
    /\ has_errors' = TRUE
    /\ report' = Append(report, "error")
    /\ pc' = "loop"
    /\ UNCHANGED <<stop_start, ps_info, idx, container_info, mount_i, errors,
                   bam_result, bc_result, exit_code, err, invocations, calls>>

(* backup_container 86, 92-97: backup_all_mounts returned Ok(true) *)
MountsDone ==
    /\ UNCHANGED <<stopped, fvars, ivars>>
    /\ pc = "match"
    /\ bam_result = "Ok(true)"
    /\ report' = Append(report, "done")
    /\ pc' = "loop"
    /\ UNCHANGED <<stop_start, ps_info, idx, container_info, mount_i, errors,
                   has_errors, bam_result, bc_result, exit_code, err,
                   invocations, calls>>

(* main 50-53: the result of backup_container becomes the exit code *)
MainMatch ==
    /\ UNCHANGED <<stopped, fvars, ivars>>
    /\ pc = "return"
    /\ exit_code' = ExitOf(bc_result)
    /\ pc' = "done"
    /\ UNCHANGED <<stop_start, ps_info, idx, container_info, mount_i, errors,
                   has_errors, bam_result, bc_result, err, report, invocations,
                   calls>>

Next ==
    \/ ListErr
    \/ ListOk
    \/ NextContainer
    \/ BackupContainerReturn
    \/ InspectErr
    \/ InspectNoData
    \/ InspectOk
    \/ SkipBackupContainer
    \/ Eligible
    \/ Stop
    \/ Run
    \/ ArchiveDone
    \/ Start
    \/ MountsErr
    \/ MountsFailed
    \/ MountsDone
    \/ MainMatch

Spec == Init /\ [][Next]_vars

----------------------------------------------------------------------------
(* Types *)

TypeOK ==
    /\ pc \in {"main", "loop", "inspect", "labels", "stop", "archive", "start",
                "match", "return", "done"}
    /\ stop_start \in BOOLEAN
    /\ ps_info \in NameLists
    /\ idx \in 0..Len(ps_info)
    /\ container_info \in ContainerInfos \cup {NoInfo}
    /\ mount_i \in 0..Len(container_info.mounts)
    /\ errors \in 0..mount_i
    /\ has_errors \in BOOLEAN
    /\ bam_result \in {"none", "Ok(true)", "Ok(false)", "Err"}
    /\ bc_result \in {"none", "Ok(true)", "Ok(false)", "Err"}
    /\ exit_code \in {"none", "SUCCESS", "FAILURE", "PANIC"}
    /\ err \in {"none", "list", "inspect", "stop", "start"}
    /\ Len(report) <= idx
    /\ stopped \subseteq 1..Len(ps_info)

----------------------------------------------------------------------------
(* Vocabulary of the properties *)

(* The invocations of the current container with the given command. *)
CallsOf(cmd) == SelectSeq(calls, LAMBDA x : x.cmd = cmd)

(* Positions, in the whole run, of the invocations `cmd` for container c. *)
IssuedFor(cmd, c) ==
    {k \in 1..Len(invocations) :
        invocations[k].c = c /\ invocations[k].cmd = cmd}

StopFailed == \E k \in 1..Len(calls) : calls[k].cmd = "stop" /\ ~calls[k].ok
StopSucceeded == \E k \in 1..Len(calls) : calls[k].cmd = "stop" /\ calls[k].ok
AnyRunFailed == \E k \in 1..Len(calls) : calls[k].cmd = "run" /\ ~calls[k].ok

(* The mount paths of the archive invocations of the current container. *)
RunDestinations ==
    LET runs == CallsOf("run")
    IN [k \in 1..Len(runs) |-> runs[k].destination]

Inspected == container_info # NoInfo
HelperLabelled == <<"type", TYPE_BACKUPCONTAINER>> \in container_info.labels

(* backup_all_mounts is past its archive loop for the current container. *)
ArchiveLoopOver == pc \in {"start", "match", "loop", "return", "done"}

(* The processing of container c is over. *)
Finished(c) == c < idx \/ (c = idx /\ pc \in {"match", "loop", "return", "done"})

SomeContainerFailed == \E c \in 1..Len(report) : report[c] = "error"

----------------------------------------------------------------------------
(* C1: with stop-before-backup enabled, once the stop invocation of a      *)
(* container has failed no archive (run) invocation is issued for that     *)
(* container, and the process ends with a non-success exit status.         *)
C1_StopFailureNoArchive ==
    (stop_start /\ StopFailed) =>
        /\ CallsOf("run") = <<>>
        /\ IssuedFor("run", idx) = {}
        /\ pc \in {"match", "return", "done"}
        /\ pc = "done" => exit_code \in {"FAILURE", "PANIC"}

W_C1_StopFailed ==
    /\ pc = "done"
    /\ stop_start
    /\ StopFailed
    /\ container_info.mounts # <<>>

(* C2: for every container whose stop invocation succeeded, the start      *)
(* invocation is issued exactly once, after the stop and after every       *)
(* archive invocation of that container, whatever the outcome of the       *)
(* archives; start is never issued without a stop.                         *)
C2_StartExactlyOnceAfterArchive ==
    /\ \A c \in 1..idx :
         LET stops == IssuedFor("stop", c)
             runs == IssuedFor("run", c)
             starts == IssuedFor("start", c)
         IN /\ Cardinality(starts) <= 1
            /\ Cardinality(stops) <= 1
            /\ starts # {} => stops # {}
            /\ \A s \in starts : \A r \in runs \cup stops : r < s
            /\ (stops # {} /\ Finished(c) /\ ~(c = idx /\ StopFailed))
                  => Cardinality(starts) = 1
    /\ CallsOf("start") # <<>> =>
         /\ StopSucceeded
         /\ Len(CallsOf("run")) = Len(container_info.mounts)
         /\ calls[Len(calls)].cmd = "start"

W_C2_StartAfterFailedArchive ==
    /\ pc = "done"
    /\ idx = 2
    /\ IssuedFor("start", 1) # {}
    /\ StopSucceeded
    /\ AnyRunFailed
    /\ CallsOf("start") # <<>>

(* C3 (as claimed): the exit status is failure exactly when a processed    *)
(* container reported failure.                                             *)
C3_ExitFailureIffContainerFailed ==
    (pc = "done" /\ err = "none") =>
        (exit_code = "FAILURE" <=> SomeContainerFailed)

(* C4 (as claimed): after a failed stop or start invocation every listed   *)
(* container is still inspected and processed and the run ends with the    *)
(* aggregated failure result.                                              *)
C4_LifecycleFailureKeepsGoing ==
    (pc = "done" /\ err \in {"stop", "start"}) =>
        /\ \A c \in 1..Len(ps_info) : IssuedFor("inspect", c) # {}
        /\ Len(report) = Len(ps_info)
        /\ exit_code = "FAILURE"

(* C5: a container whose label `type` is the backup-helper marker gets no  *)
(* stop, run or start invocation, whatever the option and its mounts, it   *)
(* is reported as done, and the failure flag is raised by failed           *)
(* containers only.                                                        *)
C5_HelperSkipped ==
    /\ has_errors <=> SomeContainerFailed
    /\ (Inspected /\ HelperLabelled) =>
          /\ \A k \in 1..Len(calls) : calls[k].cmd = "inspect"
          /\ \A cmd \in {"stop", "run", "start"} : IssuedFor(cmd, idx) = {}
          /\ bam_result \in {"none", "Ok(true)"}
          /\ err = "none"
          /\ Len(report) = idx => report[idx] = "done"

W_C5_HelperWithMounts ==
    /\ pc = "done"
    /\ stop_start
    /\ Inspected
    /\ HelperLabelled
    /\ Len(container_info.mounts) = MaxMounts
    /\ report[idx] = "done"

(* C6: the archive invocations of a container are, at every moment, the    *)
(* first mounts of the inspected list in the reported order, and once the  *)
(* archive loop of an eligible container is over they are exactly the      *)
(* whole list.                                                             *)
C6_OneArchivePerMountInOrder ==
    Inspected =>
        LET archived == RunDestinations
        IN /\ Len(archived) <= Len(container_info.mounts)
           /\ \A k \in 1..Len(archived) :
                 archived[k] = container_info.mounts[k]
           /\ Cardinality(IssuedFor("run", idx)) = Len(archived)
           /\ (~HelperLabelled /\ ~StopFailed /\ ArchiveLoopOver)
                 => archived = container_info.mounts

W_C6_TwoMountsArchived ==
    /\ pc = "loop"
    /\ Inspected
    /\ Len(container_info.mounts) = 2
    /\ container_info.mounts[1] # container_info.mounts[2]
    /\ RunDestinations = container_info.mounts

(* C7: a failed archive invocation stops neither the remaining mounts nor  *)
(* the remaining containers, and a container that got a result from        *)
(* backup_all_mounts is reported as failed exactly when one of its archive *)
(* invocations failed.                                                     *)
C7_ArchiveFailureIsolated ==
    /\ (AnyRunFailed /\ ArchiveLoopOver)
          => RunDestinations = container_info.mounts
    /\ (pc = "loop" /\ idx >= 1 /\ Inspected /\ ~HelperLabelled)
          => (report[idx] = "error" <=> AnyRunFailed)
    /\ (pc = "done" /\ err = "none")
          => (idx = Len(ps_info) /\ Len(report) = Len(ps_info))
    /\ AnyRunFailed => err \in {"none", "start"}

W_C7_FailureThenNextContainer ==
    /\ pc = "done"
    /\ Len(report) = 2
    /\ report[1] = "error"
    /\ report[2] = "done"
    /\ Cardinality(IssuedFor("run", 1)) = 2
    /\ IssuedFor("run", 2) # {}

(* C8 (as claimed): a container whose inspect returned an empty array is   *)
(* counted as failed, gets no stop, run or start invocation, and the batch *)
(* goes on.                                                                *)
C8_NoDataCountsAsFailure ==
    (pc = "loop" /\ idx >= 1 /\ report[idx] = "nodata") =>
        /\ has_errors
        /\ \A k \in 1..Len(calls) : calls[k].cmd = "inspect"

(* C9 (as claimed): a failed inspect call aborts that container only: it   *)
(* counts as failed and every listed container is still inspected.         *)
C9_InspectFailureIsolated ==
    (pc = "done" /\ err = "inspect") =>
        /\ \A c \in 1..Len(ps_info) : IssuedFor("inspect", c) # {}
        /\ has_errors

(* C10: when the list call fails, the list invocation is the only          *)
(* invocation of the run and the process exits with the success status.    *)
C10_ListFailureNoWork ==
    err = "list" =>
        /\ invocations = <<Issued("list", 0)>>
        /\ calls = <<>>
        /\ report = <<>>
        /\ pc = "done"
        /\ exit_code = "SUCCESS"

W_C10_ListFailed ==
    /\ pc = "done"
    /\ err = "list"

----------------------------------------------------------------------------
(* C12: with the stop-before-backup option disabled no stop and no start   *)
(* invocation is issued during the whole batch, and once the archive loop  *)
(* of an eligible container is over every one of its mounts has had its    *)
(* archive invocation.                                                     *)
C12_NoLifecycleWhenDisabled ==
    ~stop_start =>
        /\ \A k \in 1..Len(invocations) :
              invocations[k].cmd \notin {"stop", "start"}
        /\ \A k \in 1..Len(calls) : calls[k].cmd \in {"inspect", "run"}
        /\ pc \notin {"stop", "start"}
        /\ err \in {"none", "list", "inspect"}
        /\ (Inspected /\ ~HelperLabelled /\ ArchiveLoopOver)
              => /\ RunDestinations = container_info.mounts
                 /\ Cardinality(IssuedFor("run", idx)) = Len(container_info.mounts)

W_C12_ArchivedLive ==
    /\ pc = "done"
    /\ ~stop_start
    /\ idx = 2
    /\ IssuedFor("run", 1) # {}
    /\ Inspected
    /\ ~HelperLabelled
    /\ Len(container_info.mounts) = 2
    /\ RunDestinations = container_info.mounts

----------------------------------------------------------------------------
(* C15 (as claimed): the engine lists db and cache; db has the one mount   *)
(* /var/lib/db and no helper label, cache has no mount and the helper      *)
(* label, every invocation succeeds.  Then db gets exactly one archive     *)
(* invocation, writing db_var_lib_db.tar, cache gets none and the process  *)
(* exits with the success status.                                          *)
DbArchive ==
    <<"/", "b", "a", "c", "k", "u", "p", "d", "e", "s", "t", "/",
      "d", "b", "_", "v", "a", "r", "_", "l", "i", "b", "_", "d", "b",
      ".", "t", "a", "r">>

C15_EndToEndScenario ==
    /\ (/\ ps_info = <<NameDb, NameCache>>
        /\ idx = 1
        /\ Inspected
        /\ ~HelperLabelled
        /\ container_info.mounts = <<PathVarLibDb>>
        /\ \A k \in 1..Len(calls) : calls[k].ok
        /\ ArchiveLoopOver)
         => /\ Len(CallsOf("run")) = 1
            /\ CallsOf("run")[1].file = DbArchive
    /\ (/\ pc = "done"
        /\ ps_info = <<NameDb, NameCache>>
        /\ err = "none"
        /\ report = <<"done", "done">>
        /\ Cardinality(IssuedFor("run", 1)) = 1
        /\ Inspected
        /\ HelperLabelled
        /\ container_info.mounts = <<>>)
         => /\ IssuedFor("run", 2) = {}
            /\ exit_code = "SUCCESS"

----------------------------------------------------------------------------
(* C18: the invocations are issued container by container in listing       *)
(* order; a container that is being or has been processed has exactly one  *)
(* inspect invocation, by its name, issued before every other invocation   *)
(* for it and while no earlier record is at hand; the stop, run and start  *)
(* invocations carry the id of the record that inspect returned.           *)
InspectIssued(c) == c < idx \/ (c = idx /\ pc # "inspect")

C18_OneContainerAtATime ==
    (* the list invocation comes first; after it every inspect invocation   *)
    (* opens the next container and every other invocation belongs to the  *)
    (* container that the latest inspect opened                             *)
    /\ \A k \in 1..Len(invocations) :
          IF k = 1
          THEN invocations[k] = Issued("list", 0)
          ELSE /\ invocations[k].cmd \in {"inspect", "stop", "run", "start"}
               /\ IF invocations[k].cmd = "inspect"
                  THEN invocations[k].c = invocations[k - 1].c + 1
                  ELSE /\ invocations[k].c = invocations[k - 1].c
                       /\ invocations[k].c >= 1
    (* the containers opened so far are exactly those up to the loop's      *)
    (* position                                                             *)
    /\ invocations # <<>> =>
          invocations[Len(invocations)].c = IF InspectIssued(idx) THEN idx ELSE idx - 1
    /\ pc = "inspect" => (container_info = NoInfo /\ calls = <<>>)
    /\ calls # <<>> =>
          /\ calls[1].cmd = "inspect"
          /\ calls[1].target = ps_info[idx]
          /\ \A k \in 2..Len(calls) :
                /\ calls[k].cmd \in {"stop", "run", "start"}
                /\ calls[k].target = container_info.id

W_C18_SecondContainerOwnId ==
    /\ pc = "done"
    /\ idx = 2
    /\ Cardinality({k \in 1..Len(invocations) : invocations[k].c = 1}) >= 4
    /\ Len(calls) >= 4
    /\ calls[Len(calls)].cmd = "start"

----------------------------------------------------------------------------
(* C19: at most one container is stopped by the batch and not restarted    *)
(* since; when a stop invocation is about to be issued no container is in  *)
(* that condition.                                                         *)
C19_AtMostOneStopped ==
    /\ Cardinality(stopped) <= 1
    /\ stopped \subseteq {idx}
    /\ pc \in {"inspect", "labels", "stop"} => stopped = {}
    /\ \A c \in 1..Len(ps_info) : (c < idx) => c \notin stopped

W_C19_SecondStopAfterRestart ==
    /\ idx = 2
    /\ IssuedFor("stop", 1) # {}
    /\ IssuedFor("start", 1) # {}
    /\ stopped = {2}

----------------------------------------------------------------------------
(* The file-name derivation applied to arbitrary mount destinations *)

PathAlphabet == {"/", "_", "a", "b"}

(* Mount destinations are absolute paths inside the container. *)
MountPaths ==
    {<<"/">> \o t : t \in SeqsUpTo(PathAlphabet, MaxPathLen - 1)} \cup Destinations

InitDerive ==
    /\ BatchIdle
    /\ InvokerIdle
    /\ fpc = "start"
    /\ arg_name \in Names
    /\ arg_s \in MountPaths
    /\ arg_other = <<>>
    /\ sanitized = <<>>
    /\ resanitized = <<>>
    /\ archive = <<>>
    /\ other_archive = <<>>

(* sanitize 179-181 *)
Sanitize ==
    /\ fpc = "start"
    /\ sanitized' = sanitize(arg_s)
    /\ fpc' = "sanitized"
    /\ UNCHANGED <<mvars, ivars, arg_name, arg_s, arg_other, resanitized,
                   archive, other_archive>>

(* sanitize 179-181, applied to its own result *)
SanitizeAgain ==
    /\ fpc = "sanitized"
    /\ resanitized' = sanitize(sanitized)
    /\ fpc' = "resanitized"
    /\ UNCHANGED <<mvars, ivars, arg_name, arg_s, arg_other, sanitized,
                   archive, other_archive>>

(* backup_all_mounts 152-157: the archive path of the mount *)
FormatArchive ==
    /\ fpc = "resanitized"
    /\ archive' = ArchivePath(arg_name, arg_s)
    /\ fpc' = "archived"
    /\ UNCHANGED <<mvars, ivars, arg_name, arg_s, arg_other, sanitized,
                   resanitized, other_archive>>

(* backup_all_mounts 136, 152-157: the archive path of another mount of  *)
(* the same container                                                    *)
FormatOther ==
    /\ fpc = "archived"
    /\ \E o \in MountPaths :
          /\ arg_other' = o
          /\ other_archive' = ArchivePath(arg_name, o)
    /\ fpc' = "both"
    /\ UNCHANGED <<mvars, ivars, arg_name, arg_s, sanitized, resanitized,
                   archive>>

NextDerive ==
    \/ Sanitize
    \/ SanitizeAgain
    \/ FormatArchive
    \/ FormatOther

SpecDerive == InitDerive /\ [][NextDerive]_vars

----------------------------------------------------------------------------
(* C13: sanitize(p) has the length of p, has `_` where p has `/` and the   *)
(* character of p elsewhere, so it contains no `/`; applying sanitize      *)
(* again changes nothing; the archive path is /backupdest/ followed by     *)
(* the file name <name><sanitize(p)>.tar, which contains no `/`.           *)
(* sanitize("/a/b") is "_a_b"; web with /data gives web_data.tar.          *)
WebDataTar ==
    <<"w", "e", "b", "_", "d", "a", "t", "a", ".", "t", "a", "r">>

C13_SanitizeAndFileName ==
    /\ fpc \in {"sanitized", "resanitized", "archived", "both"} =>
          /\ Len(sanitized) = Len(arg_s)
          /\ \A k \in 1..Len(arg_s) :
                /\ sanitized[k] # "/"
                /\ arg_s[k] = "/" => sanitized[k] = "_"
                /\ arg_s[k] # "/" => sanitized[k] = arg_s[k]
          /\ arg_s = <<"/", "a", "/", "b">> => sanitized = <<"_", "a", "_", "b">>
    /\ fpc \in {"resanitized", "archived", "both"} => resanitized = sanitized
    /\ fpc \in {"archived", "both"} =>
          /\ archive = BackupDest \o arg_name \o sanitized \o TarSuffix
          /\ \A k \in (Len(BackupDest) + 1)..Len(archive) : archive[k] # "/"
          /\ (arg_name = NameWeb /\ arg_s = PathData)
                => archive = BackupDest \o WebDataTar

W_C13_WebData ==
    /\ fpc = "archived"
    /\ arg_name = NameWeb
    /\ arg_s = PathData
    /\ archive = BackupDest \o WebDataTar

----------------------------------------------------------------------------
(* C14 (as claimed): two distinct mount destinations of one container get  *)
(* distinct archive file names.                                            *)
C14_DistinctDestinationsDistinctFiles ==
    (fpc = "both" /\ arg_s # arg_other) => archive # other_archive

(* Two paths that differ only where one has `/` and the other has `_`. *)
SameUpToSeparator(p, q) ==
    /\ Len(p) = Len(q)
    /\ \A k \in 1..Len(p) : p[k] = q[k] \/ {p[k], q[k]} = {"/", "_"}

HasUnderscore(p) == \E k \in 1..Len(p) : p[k] = "_"

(* C14 (amended): two mount destinations of one container get the same     *)
(* archive file name exactly when they have the same length and differ     *)
(* only where one has `/` and the other `_`; distinct destinations that    *)
(* contain no `_` get distinct file names.                                 *)
C14_CollisionOnlyUpToSeparator ==
    fpc = "both" =>
        /\ (archive = other_archive) <=> SameUpToSeparator(arg_s, arg_other)
        /\ (arg_s # arg_other /\ ~HasUnderscore(arg_s) /\ ~HasUnderscore(arg_other))
              => archive # other_archive

W_C14_DistinctFiles ==
    /\ fpc = "both"
    /\ arg_s # arg_other
    /\ Len(arg_s) = Len(arg_other)
    /\ ~HasUnderscore(arg_s)
    /\ ~HasUnderscore(arg_other)
    /\ archive # other_archive

----------------------------------------------------------------------------
(* The engine invoker: docker_outputless_command (186-202), execute        *)
(* (240-254) and the decoders that read its File (207-235), called one     *)
(* after the other the way main, backup_container and backup_all_mounts    *)
(* call them.  A subprocess exits when it chooses to.                      *)

Captured == {"list", "inspect"}
Outputless == {"stop", "run", "start"}

Proc(cmd) ==
    [cmd |-> cmd, spawned |-> FALSE, state |-> "none", status |-> "none",
     waited |-> FALSE, result |-> "pending"]

Current == procs[Len(procs)]

SetCurrent(r) == [procs EXCEPT ![Len(procs)] = r]

(* main 54-57 and the `?` of main.rs 84, 132, 170: after a failed list,    *)
(* inspect, stop or start nothing more is invoked; a failed run is only    *)
(* counted (main.rs 160-166).                                              *)
CallerContinues ==
    IF procs = <<>> THEN TRUE
    ELSE Current.result = "Ok" \/ Current.cmd = "run"

InitInvoke ==
    /\ BatchIdle
    /\ DerivationIdle
    /\ ipc = "idle"
    /\ procs = <<>>
    /\ fd = NoFd

(* The caller makes its next invocation: list first (main 49), then        *)
(* inspect, stop, run and start invocations.                               *)
Invoke ==
    /\ ipc = "idle"
    /\ Len(procs) < MaxInvocations
    /\ CallerContinues
    /\ \E cmd \in (IF procs = <<>> THEN {"list"} ELSE {"inspect"} \cup Outputless) :
          procs' = Append(procs, Proc(cmd))
    /\ fd' = NoFd
    /\ ipc' = "spawn"
    /\ UNCHANGED <<mvars, fvars>>

(* 190-193, 246-249: spawn() fails and `?` returns the error *)
SpawnFail ==
    /\ ipc = "spawn"
    /\ procs' = SetCurrent([Current EXCEPT !.result = "Err"])
    /\ ipc' = "idle"
    /\ UNCHANGED <<mvars, fvars, fd>>

(* 190-193, 246-249: spawn() starts the subprocess; with Stdio::piped()    *)
(* the child handle owns the read end of the pipe                          *)
SpawnOk ==
    /\ ipc = "spawn"
    /\ procs' = SetCurrent([Current EXCEPT !.spawned = TRUE, !.state = "running"])
    /\ IF Current.cmd \in Captured
       THEN /\ fd' = [state |-> "open", owners |-> {"child.stdout"}, closes |-> 0]
            /\ ipc' = "alias"
       ELSE /\ fd' = fd
            /\ ipc' = "wait"
    /\ UNCHANGED <<mvars, fvars>>

(* A running subprocess exits, with either status. *)
ChildExit ==
    /\ ipc # "off"
    /\ \E k \in 1..Len(procs) :
          /\ procs[k].state = "running"
          /\ \E st \in {"success", "failure"} :
                procs' = [procs EXCEPT ![k] = [@ EXCEPT !.state = "exited",
                                                        !.status = st]]
    /\ UNCHANGED <<mvars, fvars, ipc, fd>>

(* 194-201: child.wait() returns once the subprocess has exited; the       *)
(* result follows the exit status                                          *)
Wait ==
    /\ ipc = "wait"
    /\ Current.state = "exited"
    /\ procs' = SetCurrent([Current EXCEPT
                               !.waited = TRUE,
                               !.result = IF Current.status = "success"
                                          THEN "Ok" ELSE "Err"])
    /\ ipc' = "idle"
    /\ UNCHANGED <<mvars, fvars, fd>>

(* 250-252: File::from_raw_fd on the descriptor that child.stdout owns *)
AliasFd ==
    /\ ipc = "alias"
    /\ fd' = [fd EXCEPT !.owners = @ \cup {"File"}]
    /\ ipc' = "drop"
    /\ UNCHANGED <<mvars, fvars, procs>>

(* 253-254: execute returns Ok(f); `child` goes out of scope, its stdout   *)
(* handle closes the descriptor; the subprocess is neither waited for nor  *)
(* killed                                                                  *)
DropChild ==
    /\ ipc = "drop"
    /\ fd' = [fd EXCEPT !.owners = @ \ {"child.stdout"},
                        !.state = "closed",
                        !.closes = @ + 1]
    /\ ipc' = "read"
    /\ UNCHANGED <<mvars, fvars, procs>>

(* What reading the File yields.  On a closed descriptor number the read   *)
(* fails, unless the number names another open file by then, whose         *)
(* content is what gets decoded.                                           *)
ReadOutcomes(state) ==
    IF state = "open" THEN {"valid", "malformed"}
    ELSE {"ebadf", "valid", "malformed"}

(* 216-218, 233-234: the decoder reads the File to the end and the File    *)
(* is dropped, which closes its descriptor number                          *)
ReadAndDecode ==
    /\ ipc = "read"
    /\ \E o \in ReadOutcomes(fd.state) :
          procs' = SetCurrent([Current EXCEPT
                                 !.result = IF o = "valid" THEN "Ok" ELSE "Err"])
    /\ fd' = [fd EXCEPT !.owners = @ \ {"File"},
                        !.state = "closed",
                        !.closes = @ + 1]
    /\ ipc' = "idle"
    /\ UNCHANGED <<mvars, fvars>>

(* main 50-58: the process ends *)
CallerExit ==
    /\ ipc = "idle"
    /\ procs # <<>>
    /\ ipc' = "exit"
    /\ UNCHANGED <<mvars, fvars, procs, fd>>

NextInvoke ==
    \/ Invoke
    \/ SpawnFail
    \/ SpawnOk
    \/ ChildExit
    \/ Wait
    \/ AliasFd
    \/ DropChild
    \/ ReadAndDecode
    \/ CallerExit

SpecInvoke == InitInvoke /\ [][NextInvoke]_vars

Returned(k) == procs[k].result # "pending"
Running == {k \in 1..Len(procs) : procs[k].state = "running"}

----------------------------------------------------------------------------
(* C11 (as claimed): an invocation whose subprocess could not be spawned   *)
(* or has exited with a non-success status has returned a failure to its   *)
(* caller, for captured and outputless invocations alike.                  *)
C11_FailureAlwaysSurfaced ==
    \A k \in 1..Len(procs) :
        (/\ Returned(k)
         /\ \/ ~procs[k].spawned
            \/ (procs[k].state = "exited" /\ procs[k].status = "failure"))
          => procs[k].result = "Err"

----------------------------------------------------------------------------
(* C16 (as claimed): at most one subprocess of the batch is running, and   *)
(* an invocation is issued only when none is.                              *)
C16_OneSubprocessAtATime ==
    /\ Cardinality(Running) <= 1
    /\ ipc = "spawn" => Running = {}

----------------------------------------------------------------------------
(* C17 (as claimed, its part about a subprocess that does not exit): an    *)
(* invocation returns to its caller only once its subprocess has exited,   *)
(* so while a subprocess runs nothing further is invoked and the batch     *)
(* does not terminate.                                                     *)
C17_NoProgressPastRunningChild ==
    /\ \A k \in 1..Len(procs) :
          (procs[k].spawned /\ Returned(k)) => procs[k].state = "exited"
    /\ ipc = "exit" => Running = {}

----------------------------------------------------------------------------
(* C20 (as claimed): the stdout descriptor of a captured invocation has    *)
(* one owner, is open whenever the decoder reads it and is closed exactly  *)
(* once.                                                                   *)
C20_DescriptorSingleOwner ==
    /\ Cardinality(fd.owners) <= 1
    /\ ipc = "read" => fd.state = "open"
    /\ fd.closes <= 1

====
